---- MODULE Spec2Model ----
(***************************************************************************)
(* The kubectl-image "pull" command (cmd/kubectl-image/pull.go): RunE and  *)
(* pullImage, as a state machine.  One run of the command is one           *)
(* behaviour: the inputs (arguments, flag, kubeconfig, the server's        *)
(* certificate, the prior content of the local store) are drawn in Init,   *)
(* the failures of the individual calls are drawn in the actions.          *)
(*                                                                         *)
(* Three activities run concurrently: the command's goroutine (RunE and    *)
(* pullImage, position pc), the remote server feeding the stream, and the  *)
(* progress bar's rendering goroutine (the sink).  The caller's context    *)
(* may be cancelled at any moment.                                         *)
(***************************************************************************)
EXTENDS Integers, Sequences, FiniteSets, TLC

\* Bounds of the model.
MaxFrames == 3
MaxFrameLen == 2

VARIABLES
    \* ---- inputs of the run
    nargs,          \* len(args)
    arg,            \* args[0], a sequence of characters
    flagSet,        \* how --insecure was given: "unset", "true", "false"
    envToken,       \* the bearer token the kubeconfig holds
    certTrusted,    \* whether the server's certificate verifies
    prior,          \* content of the destination slot before the run
    \* ---- RunE locals
    pc,             \* position of the command's goroutine
    insecure,       \* the flag as read by GetBool
    configRead,     \* BuildConfigFromFlags returned a config
    token,          \* config.BearerToken
    tidx,           \* imageindex {server, namespace, name}
    dstref,         \* destination reference (the slot), or NoRef
    polctx,         \* the policy context was built
    err,            \* the error RunE returned
    \* ---- the caller's context
    cancelled,      \* ctx.Done() is closed
    cancelAt,       \* the position of the command when it was cancelled
    \* ---- network side
    conn,           \* the grpc ClientConn: "none", "open", "closed"
    stream,         \* the Pull stream: "none", "open", "closed"
    envelopes,      \* headers the client sent on the stream
    dials, pulls,   \* number of DialContext / client.Pull calls
    nsent,          \* frames the server has sent
    sentBytes,      \* bytes the server has sent
    wire,           \* frames in flight
    serverClosed,   \* the server closed the stream after its last frame
    \* ---- temp resources
    tempDir,        \* createHomeTempDir succeeded
    tempAcquired,   \* fsh.TempFile succeeded
    tempExists,     \* the temp file is on disk
    fp,             \* the temp file's content
    cleanupCalls,   \* calls of the cleanup function
    releases,       \* calls of it that removed the file
    \* ---- progress bar
    pbar,           \* "none", "running", "waited"
    queue,          \* notifications forwarded to the sink, not yet rendered
    reported,       \* sum of the per-frame counts forwarded to the sink
    sinkTotal,      \* running total the sink accumulated
    \* ---- pullImage results
    recvErr,        \* what pb.Receive returned
    recvDone,       \* pb.Receive has returned
    fromref,        \* the LocalArchiveReference, or NoRef
    pullErr,        \* the error pullImage is about to return
    pullImageRet,   \* "none", "err", "ok": how pullImage returned
    \* ---- local image store
    store,          \* content of the destination slot
    commits,        \* number of imgcopy.Image calls
    commitRes,      \* "none", "ok", "err": how imgcopy.Image returned
    \* ---- the controller binary (cmd/imgctrl/main.go)
    cpc,            \* position of main; "off" in a run of the pull command
    sigterm,        \* SIGTERM or SIGINT arrived: ctx.Done() is closed
    stopCalled,     \* the goroutine of main.go 49-52 has called stop()
    corStarted,     \* corinf.Start was called
    imgStarted,     \* imginf.Start was called
    synced,         \* the informers whose HasSynced reports true
    waitSync,       \* "none", "ok", "failed": what WaitForCacheSync returned
    ctrlStarted,    \* starter.Start was called
    exit            \* "none", "fatal", "returned": how main ended

inputs  == <<nargs, arg, flagSet, envToken, certTrusted, prior>>
runvars == <<insecure, configRead, token, tidx, dstref, polctx>>
ctxvars == <<cancelled, cancelAt>>
netvars == <<conn, stream, envelopes, dials, pulls>>
srvvars == <<nsent, sentBytes, wire, serverClosed>>
tmpvars == <<tempDir, tempAcquired, tempExists, cleanupCalls, releases>>
barvars == <<pbar, queue, reported, sinkTotal>>
pulvars == <<recvErr, recvDone, fromref, pullErr, pullImageRet>>
stovars == <<store, commits, commitRes>>
ctlvars == <<cpc, sigterm, stopCalled, corStarted, imgStarted, synced,
             waitSync, ctrlStarted, exit>>
vars == <<inputs, runvars, ctxvars, netvars, srvvars, tmpvars, barvars,
          pulvars, stovars, ctlvars, pc, err, fp>>

----------------------------------------------------------------------------
\* Values

\* An error: the stage that failed, the tag the returning layer prefixed
\* ("" when the error is returned as is), the underlying cause.
NoErr == [stage |-> "", tag |-> "", cause |-> ""]
Errorf(stage, tag, cause) == [stage |-> stage, tag |-> tag, cause |-> cause]

Canceled == "context canceled"

NoRef == [kind |-> "none"]
NoIdx == [server |-> <<>>, namespace |-> <<>>, name |-> <<>>]

\* The default of the "insecure" flag.
InsecureDefault == FALSE

\* The coordinates the command is run with.
Args == { <<"h", "/", "n", "/", "m">>,
          <<"h", "/", "n">>,
          <<"h", "/", "/", "m">>,
          <<"h", "/", "n", "/", "m", "/", "x">> }

\* The destination slot before the run: empty, or holding an older image.
NoImage  == [present |-> FALSE, content |-> <<>>]
OldImage == [present |-> TRUE, content |-> <<0>>]

----------------------------------------------------------------------------
\* Address resolver: splits on "/" and wants exactly three non-empty
\* segments.

RECURSIVE Split(_, _, _)
Split(s, cur, acc) ==
    IF s = <<>> THEN Append(acc, cur)
    ELSE IF Head(s) = "/" THEN Split(Tail(s), <<>>, Append(acc, cur))
    ELSE Split(Tail(s), Append(cur, Head(s)), acc)

indexForOk(s) ==
    LET segs == Split(s, <<>>, <<>>)
    IN  Len(segs) = 3 /\ \A i \in 1..3 : segs[i] # <<>>

indexFor(s) ==
    LET segs == Split(s, <<>>, <<>>)
    IN  [server |-> segs[1], namespace |-> segs[2], name |-> segs[3]]

----------------------------------------------------------------------------
\* The four informers main.go 98-101 waits for.
Informers == {"ConfigMaps", "Secrets", "Images", "ImageImports"}

\* The controller binary is not running.
CtrlOff ==
    /\ cpc = "off"
    /\ sigterm = FALSE
    /\ stopCalled = FALSE
    /\ corStarted = FALSE
    /\ imgStarted = FALSE
    /\ synced = {}
    /\ waitSync = "none"
    /\ ctrlStarted = FALSE
    /\ exit = "none"

Init ==
    /\ nargs \in {0, 1, 2}
    /\ arg \in Args
    /\ flagSet \in {"unset", "true", "false"}
    /\ envToken \in {"", "tok"}
    /\ certTrusted \in BOOLEAN
    /\ pc = "args"
    /\ insecure = InsecureDefault
    /\ configRead = FALSE
    /\ token = ""
    /\ tidx = NoIdx
    /\ dstref = NoRef
    /\ polctx = FALSE
    /\ err = NoErr
    /\ cancelled = FALSE
    /\ cancelAt = "never"
    /\ conn = "none"
    /\ stream = "none"
    /\ envelopes = <<>>
    /\ dials = 0
    /\ pulls = 0
    /\ nsent = 0
    /\ sentBytes = 0
    /\ wire = <<>>
    /\ serverClosed = FALSE
    /\ tempDir = FALSE
    /\ tempAcquired = FALSE
    /\ tempExists = FALSE
    /\ fp = <<>>
    /\ cleanupCalls = 0
    /\ releases = 0
    /\ pbar = "none"
    /\ queue = <<>>
    /\ reported = 0
    /\ sinkTotal = 0
    /\ recvErr = NoErr
    /\ recvDone = FALSE
    /\ fromref = NoRef
    /\ pullErr = NoErr
    /\ pullImageRet = "none"
    /\ prior \in {NoImage, OldImage}
    /\ store = prior
    /\ commits = 0
    /\ commitRes = "none"
    /\ CtrlOff

----------------------------------------------------------------------------
\* Helpers of the actions

\* RunE returns e.
Return(e) ==
    /\ pc' = "done"
    /\ err' = e

\* The cleanup function TempFile hands out: removes the file; calling it
\* again is harmless.
Cleanup ==
    /\ cleanupCalls' = cleanupCalls + 1
    /\ releases' = releases + (IF tempExists THEN 1 ELSE 0)
    /\ tempExists' = FALSE
    /\ UNCHANGED <<tempDir, tempAcquired>>

----------------------------------------------------------------------------
\* RunE, up to the call of pullImage (pull.go 47-76)

\* pull.go 48-50: the arity check.
CheckArgs ==
    /\ pc = "args"
    /\ IF nargs # 1
       THEN Return(Errorf("args", "", "invalid number of arguments"))
       ELSE pc' = "flags" /\ UNCHANGED err
    /\ UNCHANGED ctlvars
    /\ UNCHANGED <<inputs, runvars, ctxvars, netvars, srvvars, tmpvars,
                   barvars, pulvars, stovars, fp>>

\* pull.go 39 and 52-55: the flag is registered in init with its default,
\* so GetBool finds it and yields what was given, or the default.
GetInsecure ==
    /\ pc = "flags"
    /\ insecure' = (IF flagSet = "unset" THEN InsecureDefault
                    ELSE flagSet = "true")
    /\ pc' = "config"
    /\ UNCHANGED ctlvars
    /\ UNCHANGED <<inputs, configRead, token, tidx, dstref, polctx, ctxvars,
                   netvars, srvvars, tmpvars, barvars, pulvars, stovars,
                   err, fp>>

\* pull.go 57-60: the kubeconfig is read; its error is returned as is.
LoadConfig ==
    /\ pc = "config"
    /\ \E ok \in BOOLEAN :
         IF ok
         THEN /\ configRead' = TRUE
              /\ token' = envToken
              /\ pc' = "token"
              /\ UNCHANGED err
         ELSE /\ Return(Errorf("config", "", "kubeconfig"))
              /\ UNCHANGED <<configRead, token>>
    /\ UNCHANGED ctlvars
    /\ UNCHANGED <<inputs, insecure, tidx, dstref, polctx, ctxvars, netvars,
                   srvvars, tmpvars, barvars, pulvars, stovars, fp>>

\* A token check that lets every token through.
CheckTokenSkipped ==
    /\ pc = "token"
    /\ pc' = "index"
    /\ UNCHANGED ctlvars
    /\ UNCHANGED <<inputs, runvars, ctxvars, netvars, srvvars, tmpvars,
                   barvars, pulvars, stovars, err, fp>>

\* pull.go 62-64: no token, no pull.
CheckToken ==
    /\ pc = "token"
    /\ IF token = ""
       THEN Return(Errorf("token", "", "empty token"))
       ELSE pc' = "index" /\ UNCHANGED err
    /\ UNCHANGED ctlvars
    /\ UNCHANGED <<inputs, runvars, ctxvars, netvars, srvvars, tmpvars,
                   barvars, pulvars, stovars, fp>>

\* A coordinate parse whose error is not looked at.
IndexForIgnoresErr ==
    /\ pc = "index"
    /\ tidx' = (IF indexForOk(arg) THEN indexFor(arg) ELSE NoIdx)
    /\ pc' = "dial"
    /\ UNCHANGED ctlvars
    /\ UNCHANGED <<inputs, insecure, configRead, token, dstref, polctx,
                   ctxvars, netvars, srvvars, tmpvars, barvars, pulvars,
                   stovars, fp, err>>

\* pull.go 66-70: the coordinate is parsed; the error is returned as is.
IndexFor ==
    /\ pc = "index"
    /\ IF indexForOk(arg)
       THEN /\ tidx' = indexFor(arg)
            /\ pc' = "dial"
            /\ UNCHANGED err
       ELSE /\ Return(Errorf("index", "", "image path layout"))
            /\ UNCHANGED tidx
    /\ UNCHANGED ctlvars
    /\ UNCHANGED <<inputs, insecure, configRead, token, dstref, polctx,
                   ctxvars, netvars, srvvars, tmpvars, barvars, pulvars,
                   stovars, fp>>

----------------------------------------------------------------------------
\* pullImage (pull.go 109-170).  When it returns an error before the
\* progress bar exists, RunE returns that error at once (pull.go 77-79).

PullImageFails(e) ==
    /\ pullImageRet' = "err"
    /\ pullErr' = e
    /\ Return(e)
    /\ UNCHANGED <<recvErr, recvDone, fromref>>

\* A dial that is tried again, once, when it fails.
DialRetries ==
    /\ pc = "dial"
    /\ dials' = dials + 1
    /\ \E ok \in BOOLEAN :
         IF ok /\ ~cancelled
         THEN /\ conn' = "open"
              /\ pc' = "pull"
              /\ UNCHANGED <<err, pulvars>>
         ELSE IF dials = 0
         THEN UNCHANGED <<conn, pc, err, pulvars>>
         ELSE /\ PullImageFails(Errorf("dial", "error connecting", "dial"))
              /\ UNCHANGED conn
    /\ UNCHANGED ctlvars
    /\ UNCHANGED <<inputs, runvars, ctxvars, stream, envelopes, pulls,
                   srvvars, tmpvars, barvars, stovars, fp>>

\* pull.go 112-123.  The dial carries no WithBlock option: DialContext
\* returns without waiting for the connection, the TLS handshake happens
\* when the first call needs the transport.  It fails on a context that is
\* already done, or on a target it cannot use.
Dial ==
    /\ pc = "dial"
    /\ dials' = dials + 1
    /\ \E ok \in BOOLEAN :
         IF cancelled
         THEN /\ PullImageFails(Errorf("dial", "error connecting", Canceled))
              /\ UNCHANGED conn
         ELSE IF ok
         THEN /\ conn' = "open"
              /\ pc' = "pull"
              /\ UNCHANGED <<err, pulvars>>
         ELSE /\ PullImageFails(Errorf("dial", "error connecting", "dial"))
              /\ UNCHANGED conn
    /\ UNCHANGED ctlvars
    /\ UNCHANGED <<inputs, runvars, ctxvars, stream, envelopes, pulls,
                   srvvars, tmpvars, barvars, stovars, fp>>

\* The header pull.go 125-129 builds.
Header == [name |-> tidx.name, namespace |-> tidx.namespace, token |-> token]

\* A stream open that sends its header twice.
PullSendsTwice ==
    /\ pc = "pull"
    /\ pulls' = pulls + 1
    /\ ~cancelled
    /\ insecure \/ certTrusted
    /\ stream' = "open"
    /\ envelopes' = envelopes \o <<Header, Header>>
    /\ pc' = "tempdir"
    /\ UNCHANGED ctlvars
    /\ UNCHANGED <<inputs, runvars, ctxvars, conn, dials, srvvars, tmpvars,
                   barvars, stovars, fp, err, pulvars>>

\* pull.go 131-142.  The call needs the transport: the handshake runs here
\* and verifies the server's certificate unless InsecureSkipVerify is set
\* (pull.go 117).  On success the one request message, the header, has been
\* sent.  On failure pullImage returns; the connection stays as it is.
Pull ==
    /\ pc = "pull"
    /\ pulls' = pulls + 1
    /\ \E ok \in BOOLEAN :
         IF cancelled
         THEN /\ PullImageFails(Errorf("pull", "error pulling", Canceled))
              /\ UNCHANGED <<stream, envelopes>>
         ELSE IF ~insecure /\ ~certTrusted
         THEN /\ PullImageFails(Errorf("pull", "error pulling", "x509"))
              /\ UNCHANGED <<stream, envelopes>>
         ELSE IF ok
         THEN /\ stream' = "open"
              /\ envelopes' = Append(envelopes, Header)
              /\ pc' = "tempdir"
              /\ UNCHANGED <<err, pulvars>>
         ELSE /\ PullImageFails(Errorf("pull", "error pulling", "rpc"))
              /\ UNCHANGED <<stream, envelopes>>
    /\ UNCHANGED ctlvars
    /\ UNCHANGED <<inputs, runvars, ctxvars, conn, dials, srvvars, tmpvars,
                   barvars, stovars, fp>>

\* pull.go 144-147.
CreateHomeTempDir ==
    /\ pc = "tempdir"
    /\ \E ok \in BOOLEAN :
         IF ok
         THEN /\ tempDir' = TRUE
              /\ pc' = "tempfile"
              /\ UNCHANGED <<err, pulvars>>
         ELSE /\ PullImageFails(
                    Errorf("tempdir", "error creating temp dir", "mkdir"))
              /\ UNCHANGED tempDir
    /\ UNCHANGED ctlvars
    /\ UNCHANGED <<inputs, runvars, ctxvars, netvars, srvvars, tempAcquired,
                   tempExists, cleanupCalls, releases, barvars, stovars, fp>>

\* pull.go 149-152.
TempFile ==
    /\ pc = "tempfile"
    /\ \E ok \in BOOLEAN :
         IF ok
         THEN /\ tempAcquired' = TRUE
              /\ tempExists' = TRUE
              /\ fp' = <<>>
              /\ pc' = "pbar"
              /\ UNCHANGED <<err, pulvars>>
         ELSE /\ PullImageFails(
                    Errorf("tempfile", "error creating temp file", "create"))
              /\ UNCHANGED <<tempAcquired, tempExists, fp>>
    /\ UNCHANGED ctlvars
    /\ UNCHANGED <<inputs, runvars, ctxvars, netvars, srvvars, tempDir,
                   cleanupCalls, releases, barvars, stovars>>

\* pull.go 154-155: the progress bar starts; its Wait is deferred.
NewProgbar ==
    /\ pc = "pbar"
    /\ pbar' = "running"
    /\ pc' = "receive"
    /\ UNCHANGED ctlvars
    /\ UNCHANGED <<inputs, runvars, ctxvars, netvars, srvvars, tmpvars,
                   queue, reported, sinkTotal, pulvars, stovars, err, fp>>

----------------------------------------------------------------------------
\* The remote service: after the header it streams the archive as frames of
\* contiguous bytes and then closes the stream.

ServerSend ==
    /\ pc # "done"
    /\ stream = "open"
    /\ envelopes # <<>>
    /\ ~serverClosed
    /\ nsent < MaxFrames
    /\ \E n \in 1..MaxFrameLen :
         /\ wire' = Append(wire, [k \in 1..n |-> sentBytes + k])
         /\ sentBytes' = sentBytes + n
    /\ nsent' = nsent + 1
    /\ UNCHANGED ctlvars
    /\ UNCHANGED <<inputs, runvars, ctxvars, netvars, serverClosed, tmpvars,
                   barvars, pulvars, stovars, pc, err, fp>>

ServerClose ==
    /\ pc # "done"
    /\ stream = "open"
    /\ envelopes # <<>>
    /\ ~serverClosed
    /\ serverClosed' = TRUE
    /\ UNCHANGED ctlvars
    /\ UNCHANGED <<inputs, runvars, ctxvars, netvars, nsent, sentBytes, wire,
                   tmpvars, barvars, pulvars, stovars, pc, err, fp>>

----------------------------------------------------------------------------
\* pb.Receive(stream, fp, pbar): the receive loop.  Each frame is written to
\* the file in arrival order and its byte count is forwarded to the progress
\* bar without waiting for it; a clean close of the stream ends the loop
\* without error, any other failure ends it with the error.  A receive on a
\* stream whose context is done fails with the context's error.

\* A receive step that hands the count to the bar and waits until the bar
\* has taken the one before.
RecvFrameBlocking ==
    /\ pc = "receive"
    /\ ~cancelled
    /\ wire # <<>>
    /\ queue = <<>>
    /\ fp' = fp \o Head(wire)
    /\ wire' = Tail(wire)
    /\ queue' = Append(queue, Len(Head(wire)))
    /\ reported' = reported + Len(Head(wire))
    /\ UNCHANGED ctlvars
    /\ UNCHANGED <<inputs, runvars, ctxvars, netvars, nsent, sentBytes,
                   serverClosed, tmpvars, pbar, sinkTotal, pulvars, stovars,
                   pc, err>>

\* A receive step that writes the frame it received twice.
RecvFrameDup ==
    /\ pc = "receive"
    /\ ~cancelled
    /\ wire # <<>>
    /\ fp' = fp \o Head(wire) \o Head(wire)
    /\ wire' = Tail(wire)
    /\ queue' = Append(queue, Len(Head(wire)))
    /\ reported' = reported + Len(Head(wire))
    /\ UNCHANGED ctlvars
    /\ UNCHANGED <<inputs, runvars, ctxvars, netvars, nsent, sentBytes,
                   serverClosed, tmpvars, pbar, sinkTotal, pulvars, stovars,
                   pc, err>>

RecvFrame ==
    /\ pc = "receive"
    /\ ~cancelled
    /\ wire # <<>>
    /\ fp' = fp \o Head(wire)
    /\ wire' = Tail(wire)
    /\ queue' = Append(queue, Len(Head(wire)))
    /\ reported' = reported + Len(Head(wire))
    /\ UNCHANGED ctlvars
    /\ UNCHANGED <<inputs, runvars, ctxvars, netvars, nsent, sentBytes,
                   serverClosed, tmpvars, pbar, sinkTotal, pulvars, stovars,
                   pc, err>>

RecvEOF ==
    /\ pc = "receive"
    /\ ~cancelled
    /\ wire = <<>>
    /\ serverClosed
    /\ stream' = "closed"
    /\ recvErr' = NoErr
    /\ recvDone' = TRUE
    /\ pc' = "received"
    /\ UNCHANGED ctlvars
    /\ UNCHANGED <<inputs, runvars, ctxvars, conn, envelopes, dials, pulls,
                   srvvars, tmpvars, barvars, fromref, pullErr, pullImageRet,
                   stovars, err, fp>>

\* The stream breaks (or its context is done), or the write to the file
\* fails; a failed write leaves the stream as it is.
RecvError ==
    /\ pc = "receive"
    /\ \E cause \in {"stream", "write", Canceled} :
         /\ cancelled <=> (cause = Canceled)
         /\ recvErr' = Errorf("receive", "", cause)
         /\ stream' = (IF cause = "write" THEN stream ELSE "closed")
    /\ recvDone' = TRUE
    /\ pc' = "received"
    /\ UNCHANGED ctlvars
    /\ UNCHANGED <<inputs, runvars, ctxvars, conn, envelopes, dials, pulls,
                   srvvars, tmpvars, barvars, fromref, pullErr, pullImageRet,
                   stovars, err, fp>>

\* The progress bar's goroutine: renders the notifications one by one.
SinkDrain ==
    /\ pbar = "running"
    /\ queue # <<>>
    /\ sinkTotal' = sinkTotal + Head(queue)
    /\ queue' = Tail(queue)
    /\ UNCHANGED ctlvars
    /\ UNCHANGED <<inputs, runvars, ctxvars, netvars, srvvars, tmpvars, pbar,
                   reported, pulvars, stovars, pc, err, fp>>

----------------------------------------------------------------------------
\* pullImage after the receive (pull.go 157-170)

\* A receive check that forgets the cleanup on the error path.
ReceiveReturnNoCleanup ==
    /\ pc = "received"
    /\ IF recvErr # NoErr
       THEN /\ pullErr' = Errorf("receive", "error receiving file",
                                 recvErr.cause)
            /\ pc' = "wait"
       ELSE /\ pc' = "parse"
            /\ UNCHANGED pullErr
    /\ UNCHANGED ctlvars
    /\ UNCHANGED <<inputs, runvars, ctxvars, netvars, srvvars, tmpvars,
                   barvars, recvErr, recvDone, fromref, pullImageRet,
                   stovars, err, fp>>

\* A receive check that goes on to the conversion whatever Receive said.
ReceiveReturnIgnoresErr ==
    /\ pc = "received"
    /\ pc' = "parse"
    /\ UNCHANGED ctlvars
    /\ UNCHANGED <<inputs, runvars, ctxvars, netvars, srvvars, tmpvars,
                   barvars, pulvars, stovars, err, fp>>

\* pull.go 157-160: on an error of Receive the file is removed and the
\* error is returned, tagged; the deferred Wait runs before the return.
ReceiveReturn ==
    /\ pc = "received"
    /\ IF recvErr # NoErr
       THEN /\ Cleanup
            /\ pullErr' = Errorf("receive", "error receiving file",
                                 recvErr.cause)
            /\ pc' = "wait"
       ELSE /\ pc' = "parse"
            /\ UNCHANGED <<pullErr, tmpvars>>
    /\ UNCHANGED ctlvars
    /\ UNCHANGED <<inputs, runvars, ctxvars, netvars, srvvars, barvars,
                   recvErr, recvDone, fromref, pullImageRet, stovars, err,
                   fp>>

\* pull.go 162-169: the completed file becomes a docker-archive reference.
ParseImageName ==
    /\ pc = "parse"
    /\ \E ok \in BOOLEAN :
         IF ok
         THEN /\ fromref' = [kind |-> "docker-archive"]
              /\ UNCHANGED <<pullErr, tmpvars>>
         ELSE /\ Cleanup
              /\ pullErr' = Errorf("parse", "error parsing reference",
                                   "reference")
              /\ UNCHANGED fromref
    /\ pc' = "wait"
    /\ UNCHANGED ctlvars
    /\ UNCHANGED <<inputs, runvars, ctxvars, netvars, srvvars, barvars,
                   recvErr, recvDone, pullImageRet, stovars, err, fp>>

\* A return of pullImage that does not wait for the progress bar.
PbarWaitNoWait ==
    /\ pc = "wait"
    /\ pbar' = "waited"
    /\ IF pullErr # NoErr
       THEN pullImageRet' = "err" /\ Return(pullErr)
       ELSE pullImageRet' = "ok" /\ pc' = "dstref" /\ UNCHANGED err
    /\ UNCHANGED ctlvars
    /\ UNCHANGED <<inputs, runvars, ctxvars, netvars, srvvars, tmpvars,
                   queue, reported, sinkTotal, recvErr, recvDone, fromref,
                   pullErr, stovars, fp>>

\* A caller that goes on whatever pullImage returned.
PbarWaitIgnoresErr ==
    /\ pc = "wait"
    /\ queue = <<>>
    /\ pbar' = "waited"
    /\ pullImageRet' = (IF pullErr # NoErr THEN "err" ELSE "ok")
    /\ pc' = "dstref"
    /\ UNCHANGED ctlvars
    /\ UNCHANGED <<inputs, runvars, ctxvars, netvars, srvvars, tmpvars,
                   queue, reported, sinkTotal, recvErr, recvDone, fromref,
                   pullErr, stovars, fp, err>>

\* A caller that calls the cleanup at once instead of deferring it.
PbarWaitCleansEarly ==
    /\ pc = "wait"
    /\ queue = <<>>
    /\ pbar' = "waited"
    /\ IF pullErr # NoErr
       THEN pullImageRet' = "err" /\ Return(pullErr) /\ UNCHANGED tmpvars
       ELSE pullImageRet' = "ok" /\ pc' = "dstref" /\ Cleanup
            /\ UNCHANGED err
    /\ UNCHANGED ctlvars
    /\ UNCHANGED <<inputs, runvars, ctxvars, netvars, srvvars,
                   queue, reported, sinkTotal, recvErr, recvDone, fromref,
                   pullErr, stovars, fp>>

\* pull.go 155: the deferred pbar.Wait() returns once the bar has rendered
\* everything forwarded to it; then pullImage returns, and RunE either
\* returns the error (77-79) or defers the cleanup and goes on (80).
PbarWait ==
    /\ pc = "wait"
    /\ queue = <<>>
    /\ pbar' = "waited"
    /\ IF pullErr # NoErr
       THEN pullImageRet' = "err" /\ Return(pullErr)
       ELSE pullImageRet' = "ok" /\ pc' = "dstref" /\ UNCHANGED err
    /\ UNCHANGED ctlvars
    /\ UNCHANGED <<inputs, runvars, ctxvars, netvars, srvvars, tmpvars,
                   queue, reported, sinkTotal, recvErr, recvDone, fromref,
                   pullErr, stovars, fp>>

----------------------------------------------------------------------------
\* RunE after pullImage (pull.go 80-101).  The cleanup is deferred: it runs
\* on each of the returns below.

ReturnDeferred(e) ==
    /\ Cleanup
    /\ Return(e)

\* A destination reference with namespace and name exchanged.
LocalStorageRefSwapped ==
    /\ pc = "dstref"
    /\ dstref' = [kind |-> "slot", namespace |-> tidx.name,
                  name |-> tidx.namespace]
    /\ pc' = "policy"
    /\ UNCHANGED ctlvars
    /\ UNCHANGED <<inputs, insecure, configRead, token, tidx, polctx,
                   ctxvars, netvars, srvvars, barvars, pulvars, stovars, fp,
                   err, tmpvars>>

\* pull.go 82-85.
LocalStorageRef ==
    /\ pc = "dstref"
    /\ \E ok \in BOOLEAN :
         IF ok
         THEN /\ dstref' = [kind |-> "slot", namespace |-> tidx.namespace,
                            name |-> tidx.name]
              /\ pc' = "policy"
              /\ UNCHANGED <<err, tmpvars>>
         ELSE /\ ReturnDeferred(Errorf("dstref", "", "storage reference"))
              /\ UNCHANGED dstref
    /\ UNCHANGED ctlvars
    /\ UNCHANGED <<inputs, insecure, configRead, token, tidx, polctx,
                   ctxvars, netvars, srvvars, barvars, pulvars, stovars, fp>>

\* pull.go 87-95: the accept-anything policy.
NewPolicyContext ==
    /\ pc = "policy"
    /\ \E ok \in BOOLEAN :
         IF ok
         THEN /\ polctx' = TRUE
              /\ pc' = "commit"
              /\ UNCHANGED <<err, tmpvars>>
         ELSE /\ ReturnDeferred(Errorf("policy", "", "policy"))
              /\ UNCHANGED polctx
    /\ UNCHANGED ctlvars
    /\ UNCHANGED <<inputs, insecure, configRead, token, tidx, dstref,
                   ctxvars, netvars, srvvars, barvars, pulvars, stovars, fp>>

\* The local image store's copy: it replaces the slot's content by the
\* archive's, or fails and leaves the slot as it was.
StoreCopy(ok) ==
    /\ store' = (IF ok THEN [present |-> TRUE, content |-> fp] ELSE store)
    /\ commitRes' = (IF ok THEN "ok" ELSE "err")

\* A copy that is not handed the caller's context.
CommitIgnoresCtx ==
    /\ pc = "commit"
    /\ commits' = commits + 1
    /\ \E ok \in BOOLEAN :
         IF ok /\ tempExists
         THEN StoreCopy(TRUE) /\ ReturnDeferred(NoErr)
         ELSE StoreCopy(FALSE) /\ ReturnDeferred(Errorf("commit", "", "copy"))
    /\ UNCHANGED ctlvars
    /\ UNCHANGED <<inputs, runvars, ctxvars, netvars, srvvars, barvars,
                   pulvars, fp>>

\* A copy whose error is dropped: the command reports success.
CommitSwallowsErr ==
    /\ pc = "commit"
    /\ commits' = commits + 1
    /\ \E ok \in BOOLEAN :
         /\ StoreCopy(ok /\ ~cancelled /\ tempExists)
         /\ ReturnDeferred(NoErr)
    /\ UNCHANGED ctlvars
    /\ UNCHANGED <<inputs, runvars, ctxvars, netvars, srvvars, barvars,
                   pulvars, fp>>

\* pull.go 97-101: the copy into the local store, called once with the
\* caller's context; its error is returned as is.  The copy reads the temp
\* file.  The deferred cleanup runs as RunE returns.
Commit ==
    /\ pc = "commit"
    /\ commits' = commits + 1
    /\ \E ok \in BOOLEAN :
         IF cancelled
         THEN StoreCopy(FALSE) /\ ReturnDeferred(Errorf("commit", "", Canceled))
         ELSE IF ~tempExists
         THEN StoreCopy(FALSE)
              /\ ReturnDeferred(Errorf("commit", "", "no such file"))
         ELSE IF ok
         THEN StoreCopy(TRUE) /\ ReturnDeferred(NoErr)
         ELSE StoreCopy(FALSE) /\ ReturnDeferred(Errorf("commit", "", "copy"))
    /\ UNCHANGED ctlvars
    /\ UNCHANGED <<inputs, runvars, ctxvars, netvars, srvvars, barvars,
                   pulvars, fp>>

----------------------------------------------------------------------------
\* The caller cancels the context.
Cancel ==
    /\ pc # "done"
    /\ ~cancelled
    /\ cancelled' = TRUE
    /\ cancelAt' = pc
    /\ UNCHANGED ctlvars
    /\ UNCHANGED <<inputs, runvars, netvars, srvvars, tmpvars, barvars,
                   pulvars, stovars, pc, err, fp>>

\* The steps of the command's own goroutine.
Command ==
    \/ CheckArgs \/ GetInsecure \/ LoadConfig \/ CheckToken \/ IndexFor
    \/ Dial \/ Pull \/ CreateHomeTempDir \/ TempFile \/ NewProgbar
    \/ RecvFrame \/ RecvEOF \/ RecvError \/ ReceiveReturn \/ ParseImageName
    \/ PbarWait \/ LocalStorageRef \/ NewPolicyContext \/ Commit

Next == Command \/ ServerSend \/ ServerClose \/ SinkDrain \/ Cancel

Spec == Init /\ [][Next]_vars

\* The Go scheduler runs every runnable goroutine: the command's and the
\* progress bar's.  Nothing is assumed of the server or of the caller.
FairSpec == Spec /\ WF_vars(Command) /\ WF_vars(SinkDrain)

\* The receive loop and the server run; nothing is assumed of the progress
\* bar's goroutine, which may never be scheduled, nor of the failures.
StalledSinkSpec ==
    Spec /\ WF_vars(RecvFrame \/ RecvEOF) /\ WF_vars(ServerSend \/ ServerClose)

----------------------------------------------------------------------------
\* The controller binary: main of cmd/imgctrl/main.go, a program of its own.
\* In its runs the pull command's variables stay as PullOff leaves them.

pullvars == <<inputs, runvars, ctxvars, netvars, srvvars, tmpvars, barvars,
              pulvars, stovars, pc, err, fp>>

\* The pull command is not running.
PullOff ==
    /\ nargs = 0 /\ arg = <<>> /\ flagSet = "unset" /\ envToken = ""
    /\ certTrusted = FALSE /\ prior = NoImage
    /\ pc = "off" /\ insecure = InsecureDefault /\ configRead = FALSE
    /\ token = "" /\ tidx = NoIdx /\ dstref = NoRef /\ polctx = FALSE
    /\ err = NoErr /\ cancelled = FALSE /\ cancelAt = "never"
    /\ conn = "none" /\ stream = "none" /\ envelopes = <<>>
    /\ dials = 0 /\ pulls = 0
    /\ nsent = 0 /\ sentBytes = 0 /\ wire = <<>> /\ serverClosed = FALSE
    /\ tempDir = FALSE /\ tempAcquired = FALSE /\ tempExists = FALSE
    /\ fp = <<>> /\ cleanupCalls = 0 /\ releases = 0
    /\ pbar = "none" /\ queue = <<>> /\ reported = 0 /\ sinkTotal = 0
    /\ recvErr = NoErr /\ recvDone = FALSE /\ fromref = NoRef
    /\ pullErr = NoErr /\ pullImageRet = "none"
    /\ store = NoImage /\ commits = 0 /\ commitRes = "none"

CtrlInit ==
    /\ PullOff
    /\ cpc = "notify"
    /\ sigterm = FALSE
    /\ stopCalled = FALSE
    /\ corStarted = FALSE
    /\ imgStarted = FALSE
    /\ synced = {}
    /\ waitSync = "none"
    /\ ctrlStarted = FALSE
    /\ exit = "none"

\* The informers of the core factory and of the image factory.
CoreInformers == {"ConfigMaps", "Secrets"}
ImageInformers == {"Images", "ImageImports"}

\* klog.Fatal, log.Fatalf: the process exits.
Fatal ==
    /\ exit' = "fatal"
    /\ cpc' = "exited"

\* main.go 46-52: the signals are routed to ctx from here on.
NotifyContext ==
    /\ cpc = "notify"
    /\ cpc' = "config"
    /\ UNCHANGED <<sigterm, stopCalled, corStarted, imgStarted, synced,
                   waitSync, ctrlStarted, exit>>
    /\ UNCHANGED pullvars

\* SIGTERM or SIGINT arrives: before NotifyContext it ends the process, after
\* it it closes ctx.Done().
Signal ==
    /\ exit = "none"
    /\ ~sigterm
    /\ sigterm' = TRUE
    /\ IF cpc = "notify"
       THEN exit' = "killed" /\ cpc' = "exited"
       ELSE UNCHANGED <<exit, cpc>>
    /\ UNCHANGED <<stopCalled, corStarted, imgStarted, synced, waitSync,
                   ctrlStarted>>
    /\ UNCHANGED pullvars

\* main.go 49-52: the goroutine that calls stop() once ctx is done.
StopOnDone ==
    /\ exit = "none"
    /\ sigterm
    /\ ~stopCalled
    /\ stopCalled' = TRUE
    /\ UNCHANGED <<cpc, sigterm, corStarted, imgStarted, synced, waitSync,
                   ctrlStarted, exit>>
    /\ UNCHANGED pullvars

\* main.go 57-61.
BuildConfig ==
    /\ cpc = "config"
    /\ \E ok \in BOOLEAN :
         IF ok THEN cpc' = "imgcli" /\ UNCHANGED exit ELSE Fatal
    /\ UNCHANGED <<sigterm, stopCalled, corStarted, imgStarted, synced,
                   waitSync, ctrlStarted>>
    /\ UNCHANGED pullvars

\* main.go 63-68: the image client and its informer factory.
NewImageClient ==
    /\ cpc = "imgcli"
    /\ \E ok \in BOOLEAN :
         IF ok THEN cpc' = "corcli" /\ UNCHANGED exit ELSE Fatal
    /\ UNCHANGED <<sigterm, stopCalled, corStarted, imgStarted, synced,
                   waitSync, ctrlStarted>>
    /\ UNCHANGED pullvars

\* main.go 70-75: the core client and its informer factory.
NewCoreClient ==
    /\ cpc = "corcli"
    /\ \E ok \in BOOLEAN :
         IF ok THEN cpc' = "layers" /\ UNCHANGED exit ELSE Fatal
    /\ UNCHANGED <<sigterm, stopCalled, corStarted, imgStarted, synced,
                   waitSync, ctrlStarted>>
    /\ UNCHANGED pullvars

\* main.go 77-88: the services and the controllers are built, not started.
NewLayers ==
    /\ cpc = "layers"
    /\ cpc' = "corstart"
    /\ UNCHANGED <<sigterm, stopCalled, corStarted, imgStarted, synced,
                   waitSync, ctrlStarted, exit>>
    /\ UNCHANGED pullvars

\* main.go 94.
StartCoreInformers ==
    /\ cpc = "corstart"
    /\ corStarted' = TRUE
    /\ cpc' = "imgstart"
    /\ UNCHANGED <<sigterm, stopCalled, imgStarted, synced, waitSync,
                   ctrlStarted, exit>>
    /\ UNCHANGED pullvars

\* main.go 95.
StartImageInformers ==
    /\ cpc = "imgstart"
    /\ imgStarted' = TRUE
    /\ cpc' = "wait"
    /\ UNCHANGED <<sigterm, stopCalled, corStarted, synced, waitSync,
                   ctrlStarted, exit>>
    /\ UNCHANGED pullvars

\* An informer of a started factory fills its cache; it runs until
\* ctx.Done() is closed (main.go 94-95 hand it over as the stop channel).
InformerSync ==
    /\ exit = "none"
    /\ ~sigterm
    /\ \E i \in Informers \ synced :
         /\ i \in CoreInformers => corStarted
         /\ i \in ImageInformers => imgStarted
         /\ synced' = synced \cup {i}
    /\ UNCHANGED <<cpc, sigterm, stopCalled, corStarted, imgStarted,
                   waitSync, ctrlStarted, exit>>
    /\ UNCHANGED pullvars

\* A wait whose failure is logged, not fatal.
WaitForCacheSyncLogsOnly ==
    /\ cpc = "wait"
    /\ \/ /\ synced = Informers
          /\ waitSync' = "ok"
       \/ /\ sigterm
          /\ waitSync' = "failed"
    /\ cpc' = "start"
    /\ UNCHANGED <<sigterm, stopCalled, corStarted, imgStarted, synced,
                   ctrlStarted, exit>>
    /\ UNCHANGED pullvars

\* main.go 96-105: WaitForCacheSync returns true once the four HasSynced
\* all report true, false once ctx.Done() is closed; on false, klog.Fatal.
WaitForCacheSync ==
    /\ cpc = "wait"
    /\ \/ /\ synced = Informers
          /\ waitSync' = "ok"
          /\ cpc' = "start"
          /\ UNCHANGED exit
       \/ /\ sigterm
          /\ waitSync' = "failed"
          /\ Fatal
    /\ UNCHANGED <<sigterm, stopCalled, corStarted, imgStarted, synced,
                   ctrlStarted>>
    /\ UNCHANGED pullvars

\* main.go 107-108: starter.Start is called with the controllers.
StartControllers ==
    /\ cpc = "start"
    /\ ctrlStarted' = TRUE
    /\ cpc' = "running"
    /\ UNCHANGED <<sigterm, stopCalled, corStarted, imgStarted, synced,
                   waitSync, exit>>
    /\ UNCHANGED pullvars

\* main.go 108-111: Start returns, with an error that is logged or once
\* ctx is done, and main returns.
StartReturns ==
    /\ cpc = "running"
    /\ \E failed \in BOOLEAN : failed \/ sigterm
    /\ exit' = "returned"
    /\ cpc' = "exited"
    /\ UNCHANGED <<sigterm, stopCalled, corStarted, imgStarted, synced,
                   waitSync, ctrlStarted>>
    /\ UNCHANGED pullvars

CtrlNext ==
    \/ NotifyContext \/ Signal \/ StopOnDone \/ BuildConfig
    \/ NewImageClient \/ NewCoreClient \/ NewLayers
    \/ StartCoreInformers \/ StartImageInformers \/ InformerSync
    \/ WaitForCacheSync \/ StartControllers \/ StartReturns

CtrlSpec == CtrlInit /\ [][CtrlNext]_vars

----------------------------------------------------------------------------
\* Properties

\* The positions at which a network operation is in flight.
NetworkPcs == {"dial", "pull", "receive", "commit"}

\* C1: in every run in which the temp file was acquired, its release
\* function has been called exactly once, and has removed the file, by the
\* time the command returns, on every exit path; it is never called twice,
\* and never called when no file was acquired.
C1_ReleasedExactlyOnce ==
    /\ cleanupCalls <= 1
    /\ releases <= 1
    /\ ~tempAcquired => cleanupCalls = 0
    /\ (pc = "done" /\ tempAcquired) =>
           (cleanupCalls = 1 /\ releases = 1 /\ ~tempExists)

\* A successful run that acquired, filled and released the temp file.
C1_Witness ==
    /\ pc = "done"
    /\ err = NoErr
    /\ tempAcquired
    /\ fp # <<>>
    /\ releases = 1

\* C2: a LocalArchiveReference exists only if the receive step returned
\* without error; once pullImage has seen the receive fail, the temp file
\* is gone and no reference is built from it.
C2_NoRefFromAbortedStream ==
    /\ fromref # NoRef => (recvDone /\ recvErr = NoErr)
    /\ (recvDone /\ recvErr # NoErr /\ pc # "received") =>
           (~tempExists /\ fromref = NoRef)

\* The stream broke after bytes had been written, and pullImage is past
\* its check of the receive.
C2_Witness ==
    /\ recvDone
    /\ recvErr.cause = "stream"
    /\ Len(fp) > 0
    /\ pc = "wait"

\* C3: when the kubeconfig yields an empty token the command ends with the
\* empty-token error, and nothing is dialled, no stream is opened and no
\* temp resource is acquired, whatever the coordinate and the flag.
C3_EmptyTokenNoNetwork ==
    /\ envToken = "" =>
           /\ dials = 0 /\ pulls = 0
           /\ conn = "none" /\ stream = "none" /\ envelopes = <<>>
           /\ ~tempDir /\ ~tempAcquired
    /\ (pc = "done" /\ configRead /\ token = "") =>
           (err.stage = "token" /\ err.cause = "empty token")

\* A run with --insecure and a well-formed coordinate that read a config
\* without a token.
C3_Witness ==
    /\ pc = "done"
    /\ configRead
    /\ token = ""
    /\ insecure
    /\ indexForOk(arg)

\* C4: whenever pullImage has returned after the stream was opened, the
\* stream and its connection are closed.
C4_SessionDestroyed ==
    (pullImageRet # "none" /\ stream # "none") =>
        (stream = "closed" /\ conn = "closed")

\* C5: pullImage does not return, after the progress bar was started,
\* before the bar has rendered everything forwarded to it, whether the
\* receive succeeded or failed; and once the receive has ended pullImage
\* does return.
C5_WaitsForSink ==
    /\ []((pullImageRet # "none" /\ pbar # "none") =>
             (pbar = "waited" /\ queue = <<>> /\ sinkTotal = reported))
    /\ [](recvDone => <>(pullImageRet # "none"))

\* pullImage returned an error after a failed receive whose frames had been
\* reported to the bar.
C5_Witness ==
    /\ pullImageRet = "err"
    /\ recvErr # NoErr
    /\ pbar = "waited"
    /\ reported > 1

\* C6: once the context is cancelled the command returns; when it was
\* cancelled while a network operation was in flight the error it returns
\* is the cancellation; and a temp file that was acquired is released on
\* that path.
C6_CancelUnblocks ==
    /\ [](cancelled => <>(pc = "done"))
    /\ []((pc = "done" /\ cancelAt \in NetworkPcs) => err.cause = Canceled)
    /\ []((pc = "done" /\ cancelled /\ tempAcquired) =>
             (~tempExists /\ releases = 1))

\* A run cancelled in the middle of the receive, after bytes were written.
C6_Witness ==
    /\ pc = "done"
    /\ cancelAt = "receive"
    /\ tempAcquired
    /\ Len(fp) > 0
    /\ err.cause = Canceled

\* C7: when pullImage returns successfully, the bytes in the temp file, the
\* sum of the per-frame counts forwarded to the progress bar, the total
\* the bar accumulated and the bytes the server sent are all equal.
C7_ByteCounts ==
    pullImageRet = "ok" =>
        /\ Len(fp) = reported
        /\ Len(fp) = sinkTotal
        /\ Len(fp) = sentBytes

\* A successful transfer of several frames.
C7_Witness ==
    /\ pullImageRet = "ok"
    /\ nsent >= 2
    /\ Len(fp) >= 3

\* The envelope the run is to send: the coordinate's name and namespace and
\* the kubeconfig's token.
Envelope ==
    [name |-> indexFor(arg).name, namespace |-> indexFor(arg).namespace,
     token |-> envToken]

\* C8, as stated: every run sends exactly one envelope, carrying name,
\* namespace and token, before any frame is received or any byte written.
C8_Original ==
    /\ pc = "done" => (Len(envelopes) = 1 /\ envelopes[1] = Envelope)
    /\ (nsent > 0 \/ fp # <<>>) => Len(envelopes) = 1

\* C8, amended: no run sends more than one envelope; a run sends exactly
\* one if and only if its stream open succeeds; it carries the coordinate's
\* name and namespace and the token; and it is sent before the server sends
\* any frame and before any byte is written to the temp file.
C8_OneEnvelope ==
    /\ Len(envelopes) <= 1
    /\ (stream # "none") <=> (Len(envelopes) = 1)
    /\ envelopes # <<>> => envelopes[1] = Envelope
    /\ (nsent > 0 \/ wire # <<>> \/ fp # <<>> \/ tempAcquired) =>
           Len(envelopes) = 1

\* The envelope was sent and bytes have been written.
C8_Witness ==
    /\ Len(envelopes) = 1
    /\ fp # <<>>
    /\ pc = "done"

\* C9: a certificate that does not verify, without --insecure, makes the
\* command fail with the dial step's error before anything is streamed;
\* with --insecure the same server is streamed from; the flag is false
\* unless given.
C9_TlsFailsAtDial ==
    /\ (pc = "done" /\ err.cause = "x509") =>
           (err.stage = "dial" /\ err.tag = "error connecting")
    /\ (~certTrusted /\ ~insecure) => (stream = "none" /\ nsent = 0)
    /\ (flagSet = "unset" /\ pc # "args") => ~insecure

\* C10: an error of any of the listed stages reaches the caller wrapping
\* its cause under a tag that names the stage.
C10_PhaseTagged ==
    (pc = "done" /\ err.stage \in
        {"config", "index", "dial", "pull", "tempdir", "tempfile",
         "receive", "parse", "dstref", "policy", "commit"}) =>
        (err.tag # "" /\ err.cause # "")

\* The first n bytes of the archive the server streams: byte k is k.
Archive(n) == [k \in 1..n |-> k]

\* Every stage of the command succeeded, the commit included.
AllStagesOk ==
    /\ nargs = 1 /\ configRead /\ token # "" /\ tidx # NoIdx
    /\ conn = "open" /\ Len(envelopes) = 1
    /\ tempDir /\ tempAcquired
    /\ recvDone /\ recvErr = NoErr
    /\ fromref # NoRef /\ pullImageRet = "ok"
    /\ dstref # NoRef /\ polctx
    /\ commits = 1 /\ commitRes = "ok"

\* C11: the command returns nil if and only if every stage succeeded and
\* the commit returned without error.
C11_SuccessIffCommitted ==
    pc = "done" => ((err = NoErr) <=> AllStagesOk)

\* A run that reported success after committing a transferred archive.
C11_Witness ==
    /\ pc = "done"
    /\ err = NoErr
    /\ commitRes = "ok"
    /\ Len(store.content) >= 2

\* C12: the slot, keyed by the coordinate's namespace and name, holds what
\* it held before the run until a commit succeeds, and then exactly the
\* transferred archive; a failed commit leaves it as it was and the command
\* returns the commit's error.
C12_AllOrNothing ==
    /\ commitRes # "ok" => store = prior
    /\ commitRes = "ok" =>
           /\ store = [present |-> TRUE, content |-> fp]
           /\ fp = Archive(sentBytes)
    /\ commitRes = "err" =>
           (pc = "done" /\ err # NoErr /\ err.stage = "commit")
    /\ dstref # NoRef =>
           /\ dstref.namespace = indexFor(arg).namespace
           /\ dstref.name = indexFor(arg).name

\* A failed commit over a slot that held an older image.
C12_Witness ==
    /\ commitRes = "err"
    /\ err.cause = "copy"
    /\ prior = OldImage
    /\ store = OldImage
    /\ fp # <<>>

\* C13: within one run the dial, the stream open, the receive and the
\* commit are each attempted at most once, and a failure of any of them
\* ends the run with that failure as the command's error.
C13_NoRetry ==
    /\ [](dials <= 1 /\ pulls <= 1 /\ commits <= 1)
    /\ [][recvDone => pc' # "receive"]_vars
    /\ []((dials = 1 /\ conn = "none") =>
             (pc = "done" /\ err.stage = "dial"))
    /\ []((pulls = 1 /\ stream = "none") =>
             (pc = "done" /\ err.stage = "pull"))
    /\ []((recvDone /\ recvErr # NoErr) =>
             /\ commits = 0
             /\ pc \in {"received", "wait", "done"}
             /\ pc = "done" =>
                    (err.stage = "receive" /\ err.cause = recvErr.cause))
    /\ [](commitRes = "err" => (pc = "done" /\ err.stage = "commit"))

\* A run whose receive failed, after one dial and one stream open.
C13_Witness ==
    /\ pc = "done"
    /\ err.stage = "receive"
    /\ dials = 1 /\ pulls = 1 /\ commits = 0
    /\ fp # <<>>

\* The run is given a wrong number of arguments or a coordinate that is not
\* three non-empty segments.
UsageError == nargs # 1 \/ ~indexForOk(arg)

\* C14: a usage error makes the command fail without any network action
\* and without any temp resource; a wrong number of arguments is reported
\* before the kubeconfig is read.
C14_UsageErrorNoSideEffects ==
    /\ UsageError =>
           /\ dials = 0 /\ pulls = 0 /\ commits = 0
           /\ conn = "none" /\ stream = "none" /\ envelopes = <<>>
           /\ ~tempDir /\ ~tempAcquired
    /\ (pc = "done" /\ UsageError) => err # NoErr
    /\ nargs # 1 => (~configRead /\ (pc = "done" => err.stage = "args"))
    /\ (pc = "done" /\ err.stage = "index") => ~indexForOk(arg)

\* A run given one argument with an empty namespace segment.
C14_Witness ==
    /\ pc = "done"
    /\ nargs = 1
    /\ arg = <<"h", "/", "/", "m">>
    /\ err.stage = "index"

\* C15: the receive loop never waits on the progress bar: whatever is
\* still queued for the bar, a frame that has arrived can be written and a
\* clean close can be taken, and with a bar that never renders anything
\* the receive still comes to its end.
C15_ReceiveNeverWaits ==
    /\ []((pc = "receive" /\ ~cancelled /\ wire # <<>>) => ENABLED RecvFrame)
    /\ []((pc = "receive" /\ ~cancelled /\ wire = <<>> /\ serverClosed) =>
             ENABLED RecvEOF)
    /\ ((pc = "receive") ~> (recvDone \/ cancelled))

\* The whole stream was written and closed cleanly while the bar had
\* rendered nothing.
C15_Witness ==
    /\ recvDone
    /\ recvErr = NoErr
    /\ Len(queue) = MaxFrames
    /\ sinkTotal = 0
    /\ Len(fp) = reported

\* C16: the temp file always holds the archive's bytes in the order the
\* frames arrived, without gap or repetition; when the receive ends without
\* error it holds all of what the server sent, and the server's clean close
\* after its last frame is what ended it; the end of the stream is never
\* reported as an error.
C16_InOrderReassembly ==
    /\ fp = Archive(Len(fp))
    /\ Len(fp) <= sentBytes
    /\ (recvDone /\ recvErr = NoErr) =>
           (fp = Archive(sentBytes) /\ serverClosed /\ wire = <<>>)
    /\ (recvDone /\ recvErr # NoErr) =>
           recvErr.cause \in {"stream", "write", Canceled}

\* A transfer of as many frames as the server may send, of more than one
\* size, that pullImage returned successfully.
C16_Witness ==
    /\ pullImageRet = "ok"
    /\ nsent = MaxFrames
    /\ Len(fp) > MaxFrames
    /\ Len(fp) < MaxFrames * MaxFrameLen

\* The positions of RunE from the destination reference to the commit.
CommitPcs == {"dstref", "policy", "commit"}

\* C17: the commit is started, and the steps that lead to it are reached,
\* only when the receive returned without error and the archive reference
\* was built from the file; after a failure of the dial, the stream open, a
\* temp resource, the receive or the conversion no commit is ever started.
C17_CommitOnlyAfterTransfer ==
    /\ (pc \in CommitPcs \/ commits > 0) =>
           /\ recvDone /\ recvErr = NoErr
           /\ fromref # NoRef
           /\ pullImageRet = "ok" /\ pullErr = NoErr
    /\ (pullImageRet = "err" \/ pullErr # NoErr
            \/ (recvDone /\ recvErr # NoErr)) =>
           (commits = 0 /\ pc \notin CommitPcs)
    /\ err.stage \in {"dial", "pull", "tempdir", "tempfile", "receive",
                      "parse"} => commits = 0

\* The command is about to commit a completed, non-empty file.
C17_Witness ==
    /\ pc = "commit"
    /\ fromref # NoRef
    /\ polctx
    /\ fp # <<>>

\* C18: after a successful pullImage the temp file stays on disk, and the
\* cleanup is not called, until RunE returns; while the commit is in
\* progress the file exists, and the commit never finds it missing.
C18_FileOutlivesCommit ==
    /\ pc = "commit" => (tempExists /\ cleanupCalls = 0)
    /\ (pullImageRet = "ok" /\ pc # "done") =>
           (tempExists /\ cleanupCalls = 0)
    /\ (pullImageRet = "ok" /\ cleanupCalls > 0) =>
           (pc = "done" /\ (commits = 1 \/ err.stage \in {"dstref", "policy"}))
    /\ err.cause # "no such file"

\* The commit has succeeded over an older image and the file is gone only
\* now.
C18_Witness ==
    /\ pc = "done"
    /\ commitRes = "ok"
    /\ prior = OldImage
    /\ ~tempExists
    /\ cleanupCalls = 1
    /\ store.content = fp
    /\ fp # <<>>

\* C19: the controllers are started only after both informer factories
\* were started and the four caches reported synced; when the wait for the
\* caches fails, the signal having arrived first included, the process
\* aborts and the controllers are never started.
C19_StartAfterSync ==
    /\ (ctrlStarted \/ cpc \in {"start", "running"}) =>
           /\ corStarted /\ imgStarted
           /\ synced = Informers
           /\ waitSync = "ok"
    /\ waitSync = "failed" => (exit = "fatal" /\ ~ctrlStarted)
    /\ exit \in {"fatal", "killed"} => ~ctrlStarted
    /\ (exit = "fatal" /\ corStarted /\ imgStarted) => waitSync = "failed"

\* The signal arrived while the caches were being waited for, with two of
\* them synced, and the process aborted.
C19_Witness ==
    /\ exit = "fatal"
    /\ waitSync = "failed"
    /\ sigterm
    /\ Cardinality(synced) = 2

====
